---- MODULE Spec2Model ----
(***************************************************************************)
(* TaskMaster API: the task persistence and lifecycle contract.            *)
(*                                                                         *)
(* Embedded variant (src/api/main.py): FastAPI handlers over one SQLite    *)
(* table "tasks".  Every handler is an "async def" without any await, so   *)
(* a handler runs to completion on the event loop: one action per handler. *)
(* Remote variant (src/api/main-supabase-erro.py): handlers over a         *)
(* process-wide Supabase handle that is None when client creation failed.  *)
(***************************************************************************)
EXTENDS Integers, Sequences, FiniteSets, TLC

VARIABLES
    tasks,      \* the rows of table "tasks" (a set of rows)
    seq,        \* sqlite_sequence: the largest rowid the table ever held
    now,        \* the store clock, CURRENT_TIMESTAMP (one-second resolution)
    response,   \* the HTTP response of the last request
    connLog,    \* connection events of the last request
    openConns,  \* number of store connections currently open
    deleted,    \* history: ids whose DELETE request answered success
    assigned,   \* history: the ids assigned by INSERTs, in order
    supabase,   \* remote variant: the process-wide store handle
    handleLog   \* remote variant: calls attempted on the handle by the last request

vars == <<tasks, seq, now, response, connLog, openConns, deleted, assigned,
          supabase, handleLog>>

----------------------------------------------------------------------------
(* Bounds of the model *)

MaxId == 2
MaxClock == 1
MaxPriorityInput == 6
MaxSkip == 1
MaxLimit == 1

(* Program constants *)

PriorityLow == 1
PriorityStop == 6
DefaultPriority == 3
DefaultSkip == 0
DefaultLimit == 100

----------------------------------------------------------------------------
(* Optional[T]: None is the empty sequence, a value v is <<v>> *)

None == <<>>
Some(v) == <<v>>

\* "if user_id:" - None and the empty string are both falsy
Truthy(opt) == opt # None /\ opt[1] # ""

Titles == {"a", "b"}
Descriptions == {None, Some("d")}
Users == {"", "u1"}
PriorityInputs == {0, PriorityLow, PriorityStop - 1, MaxPriorityInput}
TaskIds == 1..MaxId

\* what can go wrong in the store during one handler
Faults == {"none", "connect", "execute", "fetch"}

Max(S) == CHOOSE x \in S : \A y \in S : y <= x
Min2(a, b) == IF a < b THEN a ELSE b

----------------------------------------------------------------------------
(* Models: TaskBase, TaskCreate *)

\* TaskBase.validate_priority: "if v not in range(1, 6): raise ValueError"
ValidatePriorityOffByOne(v) == v \in PriorityLow..PriorityStop
ValidatePriority(v) == v \in PriorityLow..(PriorityStop - 1)

TaskBase(titles, descriptions, priorities) ==
    [title : titles, description : descriptions, priority : priorities]
TaskCreate(titles, descriptions, priorities, users) ==
    [title : titles, description : descriptions, priority : priorities,
     user_id : users]

----------------------------------------------------------------------------
(* Outcomes of a handler's "with get_db()" body *)

HTTPException(status_code, detail) ==
    [raised |-> TRUE, status |-> status_code, detail |-> detail, body |-> <<>>]

\* an exception that is no HTTPException (sqlite3.Error, AttributeError);
\* str(e) is its message
Error(message) ==
    [raised |-> TRUE, status |-> 0, detail |-> <<message>>, body |-> <<>>]

Return(status_code, message, body) ==
    [raised |-> FALSE, status |-> status_code, detail |-> message, body |-> body]

\* str(e) of a caught exception; an HTTPException renders as "status: detail"
Str(e) == IF e.status = 404 THEN <<"404: ">> \o e.detail
          ELSE IF e.status = 400 THEN <<"400: ">> \o e.detail
          ELSE e.detail

\* "except Exception as e: raise HTTPException(500, f'Database error: {str(e)}')"
\* HTTPException is an Exception: one raised in the try body is caught here too.
ExceptException(out) ==
    IF out.raised
    THEN [status |-> 500, detail |-> <<"Database error: ">> \o Str(out), body |-> <<>>]
    ELSE [status |-> out.status, detail |-> out.detail, body |-> out.body]

\* the response variable: the request (operation, path id, query parameters,
\* whether the id matched a row, the store fault met) and the HTTP answer
NoParams == [skip |-> DefaultSkip, limit |-> DefaultLimit,
             user_id |-> None, completed |-> None]

Respond(op, task_id, params, existed, fault, r) ==
    [op |-> op, task_id |-> task_id, params |-> params, existed |-> existed,
     fault |-> fault, status |-> r.status, detail |-> r.detail, body |-> r.body]

\* FastAPI answers a body that fails TaskBase validation before the handler runs
ValidationError ==
    [status |-> 422, detail |-> <<"Priority must be between 1 and 5">>, body |-> <<>>]

----------------------------------------------------------------------------
(* get_db: connect, yield the connection, close it in "finally" *)

GetDbNoFinally(fault) ==
    IF fault = "connect" THEN <<>>
    ELSE IF fault = "none" THEN <<"connect", "close">>
    ELSE <<"connect">>
GetDb(fault) ==
    IF fault = "connect" THEN <<>> ELSE <<"connect", "close">>

Count(log, ev) == Cardinality({i \in 1..Len(log) : log[i] = ev})

\* connections a request leaves open
Leak(log) == Count(log, "connect") - Count(log, "close")

----------------------------------------------------------------------------
(* The table: SQL statements *)

Ids(store) == {r.id : r \in store}

\* INTEGER PRIMARY KEY AUTOINCREMENT: one more than the largest rowid ever held
NextRowIdReuse(store, s) == Max(Ids(store) \cup {0}) + 1
NextRowId(store, s) == Max(Ids(store) \cup {s}) + 1

\* INSERT INTO tasks (title, description, priority, user_id): the other columns
\* take the DEFAULTs of the schema
InsertRow(id, task, ts) ==
    [id |-> id, title |-> task.title, description |-> task.description,
     priority |-> task.priority, user_id |-> task.user_id,
     is_completed |-> FALSE, created_at |-> ts, updated_at |-> ts]

\* ... WHERE id = ?
Where(store, id) == {r \in store : r.id = id}

\* cursor.rowcount of a statement with "WHERE id = ?"
RowCount(store, id) == Cardinality(Where(store, id))

\* cursor.fetchone() of "SELECT * FROM tasks WHERE id = ?"
FetchOne(store, id) ==
    IF Where(store, id) = {} THEN None ELSE Some(CHOOSE r \in Where(store, id) : TRUE)

\* UPDATE tasks SET title, description, priority, updated_at = CURRENT_TIMESTAMP
SetUpdateNoTimestamp(row, task, ts) ==
    [row EXCEPT !.title = task.title, !.description = task.description,
                !.priority = task.priority]
SetUpdateResetCompleted(row, task, ts) ==
    [row EXCEPT !.title = task.title, !.description = task.description,
                !.priority = task.priority, !.updated_at = ts,
                !.is_completed = FALSE]
SetUpdate(row, task, ts) ==
    [row EXCEPT !.title = task.title, !.description = task.description,
                !.priority = task.priority, !.updated_at = ts]

\* UPDATE tasks SET is_completed = TRUE, updated_at = CURRENT_TIMESTAMP
SetComplete(row, ts) ==
    [row EXCEPT !.is_completed = TRUE, !.updated_at = ts]

\* DELETE FROM tasks WHERE id = ?
SqlDelete(store, id) == store \ Where(store, id)

\* WHERE user_id = ? AND is_completed = ?, each condition only when appended
Conditions(row, user_id, completed) ==
    /\ (Truthy(user_id) => row.user_id = user_id[1])
    /\ (completed # None => row.is_completed = completed[1])

\* ORDER BY created_at DESC: every order of the rows with created_at descending
\* (SQL leaves the order of rows with equal keys open)
OrderByCreatedAtAsc(rows) ==
    {s \in [1..Cardinality(rows) -> rows] :
        /\ \A i, j \in DOMAIN s : i # j => s[i] # s[j]
        /\ \A i, j \in DOMAIN s : i < j => s[i].created_at <= s[j].created_at}
OrderByCreatedAtDesc(rows) ==
    {s \in [1..Cardinality(rows) -> rows] :
        /\ \A i, j \in DOMAIN s : i # j => s[i] # s[j]
        /\ \A i, j \in DOMAIN s : i < j => s[i].created_at >= s[j].created_at}

\* LIMIT ? OFFSET ?: SQLite takes a negative LIMIT as no limit and a negative
\* OFFSET as zero
LimitOffset(rows, limit, offset) ==
    LET off == IF offset < 0 THEN 0 ELSE offset
        rest == SubSeq(rows, off + 1, Len(rows))
    IN  IF limit < 0 THEN rest ELSE SubSeq(rest, 1, Min2(limit, Len(rest)))

----------------------------------------------------------------------------
\* the state after "init_db()" at import: the table exists and is empty
Init ==
    /\ tasks = {}
    /\ seq = 0
    /\ now = 0
    /\ response = Respond("start", 0, NoParams, FALSE, "none", Return(200, <<>>, <<>>))
    /\ connLog = <<"connect", "close">>
    /\ openConns = 0
    /\ deleted = {}
    /\ assigned = <<>>
    /\ supabase = "unused"
    /\ handleLog = <<>>

remoteVars == <<supabase, handleLog>>

\* the store clock advances
Tick ==
    /\ now < MaxClock
    /\ now' = now + 1
    /\ UNCHANGED <<tasks, seq, response, connLog, openConns, deleted, assigned,
                   remoteVars>>

\* the connection bookkeeping every handler shares: "with get_db() as conn"
WithGetDb(fault) ==
    /\ connLog' = GetDb(fault)
    /\ openConns' = openConns + Leak(GetDb(fault))

\* POST /tasks/
CreateTask(task, fault) ==
    /\ UNCHANGED <<now, deleted, remoteVars>>
    /\ IF ~ValidatePriority(task.priority)
       THEN /\ response' = Respond("create", 0, NoParams, FALSE, "invalid",
                                   ValidationError)
            /\ connLog' = <<>>
            /\ UNCHANGED <<tasks, seq, openConns, assigned>>
       ELSE /\ WithGetDb(fault)
            /\ IF fault \in {"connect", "execute"}
               THEN /\ response' = Respond("create", 0, NoParams, FALSE, fault,
                                           ExceptException(Error("sqlite3.Error")))
                    /\ UNCHANGED <<tasks, seq, assigned>>
               ELSE LET task_id == NextRowId(tasks, seq)
                        task_data == FetchOne(tasks', task_id)
                    IN  /\ task_id <= MaxId
                        /\ tasks' = tasks \cup {InsertRow(task_id, task, now)}
                        /\ seq' = task_id
                        /\ assigned' = Append(assigned, task_id)
                        /\ response' = Respond("create", task_id, NoParams, FALSE, fault,
                              ExceptException(
                                 IF fault = "fetch" THEN Error("sqlite3.Error")
                                 ELSE IF task_data = None
                                 THEN HTTPException(400, <<"Error creating task">>)
                                 ELSE Return(201, <<>>, task_data)))

\* GET /tasks/?skip=&limit=&user_id=&completed=
ListTasks(params, fault) ==
    /\ fault # "fetch"
    /\ WithGetDb(fault)
    /\ IF fault # "none"
       THEN response' = Respond("list", 0, params, FALSE, fault,
                                ExceptException(Error("sqlite3.Error")))
       ELSE \E ordered \in OrderByCreatedAtDesc(
                   {r \in tasks : Conditions(r, params.user_id, params.completed)}) :
               response' = Respond("list", 0, params, FALSE, fault,
                  ExceptException(
                     Return(200, <<>>, LimitOffset(ordered, params.limit, params.skip))))
    /\ UNCHANGED <<tasks, seq, now, deleted, assigned, remoteVars>>

\* GET /tasks/{task_id}
GetTask(task_id, fault) ==
    /\ fault # "fetch"
    /\ WithGetDb(fault)
    /\ LET task == FetchOne(tasks, task_id)
       IN  response' = Respond("get", task_id, NoParams, task # None, fault,
              ExceptException(
                 IF fault # "none" THEN Error("sqlite3.Error")
                 ELSE IF task = None
                      THEN HTTPException(404, <<"Task not found">>)
                      ELSE Return(200, <<>>, task)))
    /\ UNCHANGED <<tasks, seq, now, deleted, assigned, remoteVars>>

\* PUT /tasks/{task_id}
UpdateTask(task_id, task, fault) ==
    /\ UNCHANGED <<seq, now, deleted, assigned, remoteVars>>
    /\ LET existed == Where(tasks, task_id) # {}
       IN  IF ~ValidatePriority(task.priority)
           THEN /\ response' = Respond("update", task_id, NoParams, existed,
                                       "invalid", ValidationError)
                /\ connLog' = <<>>
                /\ UNCHANGED <<tasks, openConns>>
           ELSE /\ WithGetDb(fault)
                /\ IF fault \in {"connect", "execute"}
                   THEN /\ response' = Respond("update", task_id, NoParams, existed,
                                   fault, ExceptException(Error("sqlite3.Error")))
                        /\ UNCHANGED tasks
                   ELSE /\ tasks' = (tasks \ Where(tasks, task_id)) \cup
                               {SetUpdate(r, task, now) : r \in Where(tasks, task_id)}
                        /\ response' = Respond("update", task_id, NoParams, existed,
                              fault,
                              ExceptException(
                                 IF RowCount(tasks, task_id) = 0
                                 THEN HTTPException(404, <<"Task not found">>)
                                 ELSE IF fault = "fetch" THEN Error("sqlite3.Error")
                                 ELSE Return(200, <<>>, FetchOne(tasks', task_id))))

\* PUT /tasks/{task_id}/complete
CompleteTask(task_id, fault) ==
    /\ fault # "fetch"
    /\ UNCHANGED <<seq, now, deleted, assigned, remoteVars>>
    /\ WithGetDb(fault)
    /\ LET existed == Where(tasks, task_id) # {}
       IN  IF fault # "none"
           THEN /\ response' = Respond("complete", task_id, NoParams, existed,
                                   fault, ExceptException(Error("sqlite3.Error")))
                /\ UNCHANGED tasks
           ELSE /\ tasks' = (tasks \ Where(tasks, task_id)) \cup
                               {SetComplete(r, now) : r \in Where(tasks, task_id)}
                /\ response' = Respond("complete", task_id, NoParams, existed, fault,
                      ExceptException(
                         IF RowCount(tasks, task_id) = 0
                         THEN HTTPException(404, <<"Task not found">>)
                         ELSE Return(200, <<"Task completed successfully">>, <<>>)))

\* DELETE /tasks/{task_id}
DeleteTask(task_id, fault) ==
    /\ fault # "fetch"
    /\ UNCHANGED <<seq, now, assigned, remoteVars>>
    /\ WithGetDb(fault)
    /\ LET existed == Where(tasks, task_id) # {}
       IN  IF fault # "none"
           THEN /\ response' = Respond("delete", task_id, NoParams, existed,
                                   fault, ExceptException(Error("sqlite3.Error")))
                /\ UNCHANGED <<tasks, deleted>>
           ELSE /\ tasks' = SqlDelete(tasks, task_id)
                /\ response' = Respond("delete", task_id, NoParams, existed, fault,
                      ExceptException(
                         IF RowCount(tasks, task_id) = 0
                         THEN HTTPException(404, <<"Task not found">>)
                         ELSE Return(200, <<"Task deleted successfully">>, <<>>)))
                /\ deleted' = IF response'.status = 200
                              THEN deleted \cup {task_id} ELSE deleted

----------------------------------------------------------------------------
(* Remote variant: handlers over the process-wide handle "supabase" *)

\* the row the hosted table returns for insert(task.dict()): the store assigns
\* id, is_completed and both timestamps
RemoteInsert(store, task_data, ts) ==
    InsertRow(Max(Ids(store) \cup {0}) + 1, task_data, ts)

\* query.range(skip, skip + limit - 1): rows skip..skip+limit-1 (0-based) of
\* the selected rows, in an order the store chooses
Range(rows, first, last) == SubSeq(rows, first + 1, Min2(last + 1, Len(rows)))

AnyOrder(rows) ==
    {s \in [1..Cardinality(rows) -> rows] :
        \A i, j \in DOMAIN s : i # j => s[i] # s[j]}

\* "if not supabase: raise HTTPException(500, ...)": raised outside any try
NotAvailable ==
    [status |-> 500, detail |-> <<"Database connection not available">>,
     body |-> <<>>]

embeddedVars == <<seq, connLog, openConns, deleted, assigned>>

\* POST /tasks/ (remote)
RemoteCreateTask(task, outcome) ==
    /\ UNCHANGED <<now, supabase, embeddedVars>>
    /\ IF ~ValidatePriority(task.priority)
       THEN /\ response' = Respond("create", 0, NoParams, FALSE, "invalid",
                                   ValidationError)
            /\ handleLog' = <<>>
            /\ UNCHANGED tasks
       ELSE IF supabase = "None"
       THEN /\ response' = Respond("create", 0, NoParams, FALSE, "none", NotAvailable)
            /\ handleLog' = <<>>
            /\ UNCHANGED tasks
       ELSE LET row == RemoteInsert(tasks, task, now)
            IN  /\ handleLog' = <<"table", "insert", "execute">>
                /\ row.id <= MaxId
                /\ tasks' = IF outcome = "data" THEN tasks \cup {row} ELSE tasks
                /\ response' = Respond("create", 0, NoParams, FALSE, outcome,
                      ExceptException(
                         IF outcome = "raise" THEN Error("APIError")
                         ELSE IF outcome = "nodata"
                         THEN HTTPException(400, <<"No data returned from database">>)
                         ELSE Return(200, <<>>, <<row>>)))

\* GET /tasks/?skip=&limit=&user_id= (remote)
RemoteListTasks(params, outcome) ==
    /\ outcome # "nodata"
    /\ UNCHANGED <<tasks, now, supabase, embeddedVars>>
    /\ IF supabase = "None"
       THEN /\ response' = Respond("list", 0, params, FALSE, "none", NotAvailable)
            /\ handleLog' = <<>>
       ELSE /\ handleLog' = <<"table", "select">>
                  \o (IF Truthy(params.user_id) THEN <<"eq">> ELSE <<>>)
                  \o <<"range", "execute">>
            /\ \E rows \in AnyOrder({r \in tasks : Conditions(r, params.user_id, None)}) :
                 response' = Respond("list", 0, params, FALSE, outcome,
                    ExceptException(
                       IF outcome = "raise" THEN Error("APIError")
                       ELSE Return(200, <<>>,
                               Range(rows, params.skip, params.skip + params.limit - 1))))

\* GET /debug-supabase: uses the handle without the "if not supabase" check
DebugSupabase(outcome) ==
    /\ outcome # "nodata"
    /\ UNCHANGED <<tasks, now, supabase, embeddedVars>>
    /\ LET out == IF supabase = "None"
                  THEN Error("'NoneType' object has no attribute 'table'")
                  ELSE IF outcome = "raise" THEN Error("APIError")
                  ELSE Return(200, <<"success">>, <<>>)
       IN  /\ handleLog' = IF supabase = "None" THEN <<"table">>
                           ELSE <<"table", "select", "limit", "execute">>
           \* "except Exception as e: return {'status': 'error', 'error': str(e)}"
           /\ response' = Respond("debug", 0, NoParams, FALSE,
                                  IF supabase = "None" THEN "none" ELSE outcome,
                                  IF out.raised
                                  THEN [status |-> 200, detail |-> <<"error">> \o Str(out),
                                        body |-> <<>>]
                                  ELSE [status |-> 200, detail |-> out.detail,
                                        body |-> <<>>])

\* GET /health (remote): reports "supabase is not None", calls nothing on it
HealthCheck ==
    /\ response' = Respond("health", 0, NoParams, FALSE, "none",
                           [status |-> 200,
                            detail |-> <<"healthy", IF supabase = "None"
                                                    THEN "supabase_connected: false"
                                                    ELSE "supabase_connected: true">>,
                            body |-> <<>>])
    /\ handleLog' = <<>>
    /\ UNCHANGED <<tasks, now, supabase, embeddedVars>>

----------------------------------------------------------------------------
(* Specifications: the same handlers under different request environments *)

\* Spec - the task lifecycle: the priority inputs, the clock running, no store fault
LifecycleCreate == TaskCreate({"a"}, {None}, PriorityInputs, {"u1"})
LifecycleUpdate == TaskBase({"a"}, {None}, PriorityInputs)

Next ==
    \/ Tick
    \/ \E task \in LifecycleCreate : CreateTask(task, "none")
    \/ \E task_id \in TaskIds : GetTask(task_id, "none")
    \/ \E task_id \in TaskIds, task \in LifecycleUpdate :
          UpdateTask(task_id, task, "none")
    \/ \E task_id \in TaskIds : CompleteTask(task_id, "none")
    \/ \E task_id \in TaskIds : DeleteTask(task_id, "none")

Spec == Init /\ [][Next]_vars

\* SpecFields - every field of the request bodies varies; the clock stands still
FieldsCreate == TaskCreate(Titles, Descriptions, {DefaultPriority}, Users)
FieldsUpdate == TaskBase(Titles, Descriptions, {DefaultPriority})

NextFields ==
    \/ \E task \in FieldsCreate : CreateTask(task, "none")
    \/ \E task_id \in TaskIds, task \in FieldsUpdate :
          UpdateTask(task_id, task, "none")
    \/ \E task_id \in TaskIds : CompleteTask(task_id, "none")
    \/ \E task_id \in TaskIds : DeleteTask(task_id, "none")

SpecFields == Init /\ [][NextFields]_vars

\* SpecFaults - every handler, with the store failing at any point
FaultsCreate == TaskCreate({"a"}, {None}, {0, DefaultPriority}, {"u1"})
FaultsUpdate == TaskBase({"b"}, {None}, {0, DefaultPriority})

NextFaults ==
    \/ \E task \in FaultsCreate, fault \in Faults : CreateTask(task, fault)
    \/ \E fault \in Faults : ListTasks(NoParams, fault)
    \/ \E task_id \in TaskIds, fault \in Faults : GetTask(task_id, fault)
    \/ \E task_id \in TaskIds, task \in FaultsUpdate, fault \in Faults :
          UpdateTask(task_id, task, fault)
    \/ \E task_id \in TaskIds, fault \in Faults : CompleteTask(task_id, fault)
    \/ \E task_id \in TaskIds, fault \in Faults : DeleteTask(task_id, fault)

SpecFaults == Init /\ [][NextFaults]_vars

\* SpecFilter - the list filters over tasks of two owners, open and completed;
\* the clock stands still
UserFilters == {None} \cup {Some(u) : u \in Users}
CompletedFilters == {None, Some(TRUE), Some(FALSE)}

FilterParams ==
    [skip : {DefaultSkip}, limit : {DefaultLimit},
     user_id : UserFilters, completed : CompletedFilters]

ListCreate == TaskCreate({"a"}, {None}, {DefaultPriority}, Users)

NextFilter ==
    \/ \E task \in ListCreate : CreateTask(task, "none")
    \/ \E task_id \in TaskIds : CompleteTask(task_id, "none")
    \/ \E params \in FilterParams : ListTasks(params, "none")

SpecFilter == Init /\ [][NextFilter]_vars

\* SpecPage - skip and limit, zero and negative included, the clock running
Skips == {-1} \cup 0..MaxSkip
Limits == {-1, DefaultLimit} \cup 0..MaxLimit

PageParams ==
    [skip : Skips, limit : Limits, user_id : {None, Some("u1")}, completed : {None}]

NextPage ==
    \/ Tick
    \/ \E task \in ListCreate : CreateTask(task, "none")
    \/ \E params \in PageParams : ListTasks(params, "none")

SpecPage == Init /\ [][NextPage]_vars

\* SpecRemote - the remote variant, started with or without a client
InitRemote ==
    /\ tasks = {}
    /\ seq = 0
    /\ now = 0
    /\ response = Respond("start", 0, NoParams, FALSE, "none", Return(200, <<>>, <<>>))
    /\ connLog = <<>>
    /\ openConns = 0
    /\ deleted = {}
    /\ assigned = <<>>
    /\ supabase \in {"client", "None"}
    /\ handleLog = <<>>

Outcomes == {"data", "nodata", "raise"}
RemoteCreate == TaskCreate({"a"}, {None}, PriorityInputs, Users)
RemoteParams ==
    [skip : 0..MaxSkip, limit : 1..(MaxLimit + 1), user_id : UserFilters,
     completed : {None}]

NextRemote ==
    \/ \E task \in RemoteCreate, outcome \in Outcomes : RemoteCreateTask(task, outcome)
    \/ \E params \in RemoteParams, outcome \in Outcomes :
          RemoteListTasks(params, outcome)
    \/ \E outcome \in Outcomes : DebugSupabase(outcome)
    \/ HealthCheck

SpecRemote == InitRemote /\ [][NextRemote]_vars

----------------------------------------------------------------------------
(* Claims *)

ByIdOps == {"get", "update", "complete", "delete"}

\* C1 (as claimed): a get, update, complete or delete request on an id that is
\* not in the store, with the store working, is answered 404 "Task not found".
C1_MissingIdIsNotFound ==
    (response.op \in ByIdOps /\ response.fault = "none" /\ ~response.existed)
        => (response.status = 404 /\ response.detail = <<"Task not found">>)

\* C2: every stored task has priority in {1,2,3,4,5}; a create or update request
\* whose priority is outside 1..5 is answered with the validation error
\* "Priority must be between 1 and 5", opens no store connection and leaves the
\* stored tasks unchanged.
C2_RejectedStep ==
    /\ response' .op = "create" =>
          \A task \in LifecycleCreate :
             (task.priority \notin {1, 2, 3, 4, 5} /\ CreateTask(task, "none"))
                => /\ response' .status = 422
                   /\ response' .detail = <<"Priority must be between 1 and 5">>
                   /\ connLog' = <<>>
                   /\ tasks' = tasks
    /\ response' .op = "update" =>
          \A task_id \in TaskIds, task \in LifecycleUpdate :
             (task.priority \notin {1, 2, 3, 4, 5} /\ UpdateTask(task_id, task, "none"))
                => /\ response' .status = 422
                   /\ response' .detail = <<"Priority must be between 1 and 5">>
                   /\ connLog' = <<>>
                   /\ tasks' = tasks

C2_PriorityInRange ==
    /\ [](\A r \in tasks : r.priority \in {1, 2, 3, 4, 5})
    /\ [][C2_RejectedStep]_vars

\* C2 witness: a request was rejected by the validator while tasks are stored
C2_Witness ==
    /\ response.op \in {"create", "update"}
    /\ response.status = 422
    /\ \E r \in tasks : r.priority = 5

\* C3 (as claimed): a get on an id whose delete succeeded is answered 404.
C3_GetAfterDeleteIsNotFound ==
    (response.op = "get" /\ response.fault = "none" /\ response.task_id \in deleted)
        => response.status = 404

\* the update steps on an existing id with a valid body
UpdatesExisting(task_id, task) ==
    /\ response' .op = "update"
    /\ response' .task_id = task_id
    /\ Where(tasks, task_id) # {}
    /\ ValidatePriority(task.priority)
    /\ UpdateTask(task_id, task, "none")

\* C4 (as claimed): an update of an existing task makes updated_at strictly
\* greater and leaves created_at unchanged.
C4_UpdatedAtStrictlyIncreases ==
    [][\A task_id \in TaskIds, task \in LifecycleUpdate :
          UpdatesExisting(task_id, task)
             => \A r \in Where(tasks, task_id) :
                   \E r2 \in Where(tasks', task_id) :
                      /\ r2.updated_at > r.updated_at
                      /\ r2.created_at = r.created_at]_vars

\* C4 (amended): an update of an existing task sets updated_at to the store
\* clock at the update, which is never less than the previous updated_at, and
\* leaves created_at unchanged.
C4_UpdatedAtIsClock ==
    [][\A task_id \in TaskIds, task \in LifecycleUpdate :
          UpdatesExisting(task_id, task)
             => \A r \in Where(tasks, task_id) :
                   \E r2 \in Where(tasks', task_id) :
                      /\ r2.updated_at = now
                      /\ r2.updated_at >= r.updated_at
                      /\ r2.created_at = r.created_at]_vars

\* C4 witness: an update answered 200 at the clock value of the task's creation
C4_Witness ==
    /\ response.op = "update"
    /\ response.status = 200
    /\ \E r \in Where(tasks, response.task_id) :
          r.updated_at = now /\ r.created_at = now

\* C9: no two stored tasks share an id, and each id assigned by a create is
\* greater than every id assigned before it, deleted ones included.
C9_IdsUniqueAndFresh ==
    /\ \A r1, r2 \in tasks : r1.id = r2.id => r1 = r2
    /\ \A i, j \in DOMAIN assigned : i < j => assigned[i] < assigned[j]
    /\ \A r \in tasks : \E i \in DOMAIN assigned : assigned[i] = r.id

\* C9 witness: a task was created after a task with a smaller id was deleted
C9_Witness ==
    /\ deleted # {}
    /\ \E r \in tasks : \A d \in deleted : r.id > d
    /\ Len(assigned) >= 2

\* C5 (as claimed): when user_id is supplied to list_tasks, the empty string
\* included, every task returned has that user_id, and when completed is
\* supplied too every task returned has that is_completed.
C5_ListOnlyOwner ==
    (response.op = "list" /\ response.status = 200)
        => \A i \in DOMAIN response.body :
              /\ response.params.user_id # None
                    => response.body[i].user_id = response.params.user_id[1]
              /\ response.params.completed # None
                    => response.body[i].is_completed = response.params.completed[1]

\* the rows a list request selects, and the rows it may discard from the front
Selected == {r \in tasks : Conditions(r, response.params.user_id,
                                         response.params.completed)}
InBody == {response.body[i] : i \in DOMAIN response.body}
Sorted(body) == \A i, j \in DOMAIN body : i < j => body[i].created_at >= body[j].created_at
Distinct(body) == \A i, j \in DOMAIN body : i # j => body[i] # body[j]
Clamp(n) == IF n < 0 THEN 0 ELSE n

\* the body is the selected rows in created_at descending order without the
\* first "skipped" of them: "front" rows are the ones discarded
FrontDiscarded(skipped) ==
    \E front \in SUBSET (Selected \ InBody) :
       /\ Cardinality(front) = Min2(skipped, Cardinality(Selected))
       /\ \A f \in front, r \in Selected \ front : f.created_at >= r.created_at
       /\ \A b \in InBody, r \in Selected \ (front \cup InBody) :
             b.created_at >= r.created_at

\* C6 (as claimed): for every skip and limit, negative included, the listed
\* tasks are the matching tasks by created_at descending without the first skip
\* of them, and they are at most limit (no task at all for a limit below zero).
C6_AtMostLimit ==
    (response.op = "list" /\ response.status = 200)
        => /\ Distinct(response.body) /\ InBody \subseteq Selected
           /\ Sorted(response.body)
           /\ FrontDiscarded(response.params.skip)
           /\ Len(response.body) <= Clamp(response.params.limit)

\* C6 (amended): the listed tasks are the matching tasks by created_at
\* descending without the first max(skip, 0) of them; they are at most limit
\* when limit >= 0, and all the remaining ones when limit < 0.
C6_LimitOffset ==
    (response.op = "list" /\ response.status = 200)
        => LET rest == Clamp(Cardinality(Selected) - Clamp(response.params.skip))
           IN  /\ Distinct(response.body) /\ InBody \subseteq Selected
               /\ Sorted(response.body)
               /\ FrontDiscarded(Clamp(response.params.skip))
               /\ Len(response.body) =
                     IF response.params.limit < 0 THEN rest
                     ELSE Min2(response.params.limit, rest)

\* C6 witness: a list with a negative limit and skip 1 over two tasks created at
\* different clock values returned the older one
C6_Witness ==
    /\ response.op = "list"
    /\ response.params.limit < 0
    /\ response.params.skip = 1
    /\ Len(response.body) = 1
    /\ \E r \in tasks : r.created_at > response.body[1].created_at

\* C7: an update changes only title, description, priority and updated_at of the
\* targeted task: its id, user_id, is_completed and created_at and every other
\* task stay as they were; and in every step a task that stays in the store
\* keeps its user_id.
C7_UpdateFrame ==
    [][/\ \A r \in tasks, r2 \in tasks' : r2.id = r.id => r2.user_id = r.user_id
       /\ \A task_id \in TaskIds, task \in FieldsUpdate :
             (response' .op = "update" /\ UpdateTask(task_id, task, "none"))
                => /\ Ids(tasks') = Ids(tasks)
                   /\ \A r \in tasks : r.id # task_id => r \in tasks'
                   /\ \A r \in Where(tasks, task_id) :
                         \E r2 \in tasks' :
                            /\ r2.id = r.id
                            /\ r2.user_id = r.user_id
                            /\ r2.is_completed = r.is_completed
                            /\ r2.created_at = r.created_at]_vars

\* C7 witness: an update changed the title of a completed task while another
\* owner's task is stored
C7_Witness ==
    /\ response.op = "update"
    /\ response.status = 200
    /\ response.body[1].is_completed
    /\ response.body[1].title = "b"
    /\ \E r \in tasks : r.user_id # response.body[1].user_id

\* C8 (as claimed): with the handle None, every route that touches the store
\* answers "Database connection not available" and calls nothing on the handle.
C8_FailFastWithoutHandle ==
    (supabase = "None" /\ response.op \in {"create", "list", "debug"}
                       /\ response.fault # "invalid")
        => /\ response.detail = <<"Database connection not available">>
           /\ handleLog = <<>>

\* C10: every request leaves no connection open: a handler that connected has
\* closed that connection exactly once, also on the NotFound path and when a
\* statement raised.
C10_ConnectionsClosed ==
    /\ openConns = 0
    /\ connLog \in {<<>>, <<"connect", "close">>}
    /\ (response.op # "start" /\ response.fault \notin {"connect", "invalid"})
          => connLog = <<"connect", "close">>

\* C10 witness: a statement raised inside a handler that had connected
C10_Witness ==
    /\ response.fault = "execute"
    /\ response.status = 500
    /\ connLog = <<"connect", "close">>

====
